---- MODULE Spec2Model ----
(***************************************************************************)
(* Model of final-app.py, a Streamlit dashboard.  Streamlit re-executes    *)
(* the whole script top to bottom after every widget interaction; widgets  *)
(* inside st.form only send their value when the form is submitted.        *)
(* The state is the session's widget values, the loaded CSV table and the  *)
(* elements the last run of the script put on the page.                    *)
(*                                                                         *)
(* A DataFrame is [cols : sequence of column names, rows : sequence of     *)
(* functions from column name to value].  Floating point values are exact  *)
(* rationals [tag, n, d] in lowest terms, plus NaN and inf; bucket values  *)
(* are non-negative integer counts, for which binary64 arithmetic of the   *)
(* weighted sum and of the denominator is exact.                           *)
(***************************************************************************)
EXTENDS Integers, Sequences, FiniteSets, TLC

VARIABLES table, num_towns, selected_towns, selected_town, pending_town,
          selected_columns, age_group, trigger, display, interactions

vars == <<table, num_towns, selected_towns, selected_town, pending_town,
          selected_columns, age_group, trigger, display, interactions>>

\* ---------------------------------------------------------------- bounds
MinTowns == 9
MaxTowns == 11
MaxBucket == 2
MaxInteractions == 2

\* ------------------------------------------------------ program constants
SliderMin == 10
SliderMax == 70
SliderStep == 10
SliderDefault == 70
Weight1Twice == 3
Weight2 == 5
Weight3 == 7

ColTown == "Town"
ColWomen == "Percentage of Women"
ColMen == "Percentage of Men"
ColYouth == "Percentage of Youth - 15-24 years"
ColElderly == "Percentage of Eldelry - 65 or more years"
ColB1 == "Average family size - 1 to 3 members"
ColB2 == "Average family size - 4 to 6 members"
ColB3 == "Average family size - 7 or more members"
ColAvg == "Average family size"

CsvColumns == <<ColTown, ColWomen, ColMen, ColYouth, ColElderly, ColB1, ColB2, ColB3>>

SliderValues == {n \in SliderMin..SliderMax : (n - SliderMin) % SliderStep = 0}

CategoryOptions == <<ColWomen, ColMen, ColYouth, ColElderly>>

DefaultColumns == <<ColWomen, ColMen>>

AgeGroupOptions == <<ColYouth, ColElderly>>

\* ------------------------------------------------------------- sequences
Range(s) == {s[i] : i \in DOMAIN s}

Contains(s, x) == \E i \in DOMAIN s : s[i] = x

Remove(s, x) == SelectSeq(s, LAMBDA y : y # x)

Min(a, b) == IF a < b THEN a ELSE b

\* ----------------------------------------------------------- float values
RECURSIVE GCD(_, _)
GCD(a, b) == IF b = 0 THEN a ELSE GCD(b, a % b)

NaN == [tag |-> "nan", n |-> 0, d |-> 0]

Inf == [tag |-> "inf", n |-> 0, d |-> 0]

Frac(n, d) == [tag |-> "num", n |-> n \div GCD(n, d), d |-> d \div GCD(n, d)]

\* Divide with a zero denominator filled in as 0 instead of NaN / inf
DivideZeroFilled(n, d) ==
    IF d = 0 THEN Frac(0, 1) ELSE Frac(n, d)

\* elementwise float division of pandas: 0/0 is NaN, x/0 is inf, no exception
Divide(n, d) ==
    IF d = 0
    THEN IF n = 0 THEN NaN ELSE Inf
    ELSE Frac(n, d)

\* AvgFamilySize with the third bucket weighted 8 instead of 7
AvgFamilySizeWeight8(b1, b2, b3) ==
    Divide(Weight1Twice * b1 + 2 * Weight2 * b2 + 2 * (Weight3 + 1) * b3,
           2 * (b1 + b2 + b3))

\* (1.5*b1 + 5*b2 + 7*b3) / (b1 + b2 + b3), numerator and denominator doubled
AvgFamilySize(b1, b2, b3) ==
    Divide(Weight1Twice * b1 + 2 * Weight2 * b2 + 2 * Weight3 * b3,
           2 * (b1 + b2 + b3))

\* ------------------------------------------------------------ data frames
Frame(cols, rows) == [cols |-> cols, rows |-> rows]

HasCols(df, cols) == \A i \in DOMAIN cols : Contains(df.cols, cols[i])

\* df[[c1, ..., ck]] : the named columns, in the order asked for
SelectCols(df, cols) ==
    Frame(cols, [i \in DOMAIN df.rows |-> [c \in Range(cols) |-> df.rows[i][c]]])

\* Slice with an inclusive end: df[:n + 1]
SliceInclusive(df, n) ==
    Frame(df.cols, SubSeq(df.rows, 1, Min(n + 1, Len(df.rows))))

\* the rows of df[:n]
Slice(df, n) ==
    Frame(df.cols, SubSeq(df.rows, 1, Min(n, Len(df.rows))))

\* df[df[col] == v]
Filter(df, col, v) ==
    Frame(df.cols, SelectSeq(df.rows, LAMBDA r : r[col] = v))

\* df[col].unique() : first occurrences, in row order
Unique(df, col) ==
    LET idx == SelectSeq([i \in DOMAIN df.rows |-> i],
                         LAMBDA i : \A j \in 1..(i - 1) : df.rows[j][col] # df.rows[i][col])
    IN  [k \in DOMAIN idx |-> df.rows[idx[k]][col]]

\* Melt without id_vars: the id column is melted like the others
MeltKeepId(df, id, var, val) ==
    LET vcols == df.cols
        m == Len(df.rows)
    IN  Frame(<<id, var, val>>,
              [j \in 1..(Len(vcols) * m) |->
                  LET c == vcols[((j - 1) \div m) + 1]
                      r == df.rows[((j - 1) % m) + 1]
                  IN  (id :> r[id]) @@ (var :> c) @@ (val :> r[c])])

\* df.melt(id_vars=id, var_name=var, value_name=val) : every column other
\* than id becomes a block of rows, blocks in column order
Melt(df, id, var, val) ==
    LET vcols == Remove(df.cols, id)
        m == Len(df.rows)
    IN  Frame(<<id, var, val>>,
              [j \in 1..(Len(vcols) * m) |->
                  LET c == vcols[((j - 1) \div m) + 1]
                      r == df.rows[((j - 1) % m) + 1]
                  IN  (id :> r[id]) @@ (var :> c) @@ (val :> r[c])])

\* ------------------------------------------------------------ input data
TownName(i) == "T" \o ToString(i)

NumTriples == (MaxBucket + 1) * (MaxBucket + 1) * (MaxBucket + 1)

NumVariants == (NumTriples + MinTowns - 1) \div MinTowns

\* the k-th triple of bucket counts, k in 0..NumTriples-1
BucketTriple(k) ==
    <<k % (MaxBucket + 1),
      (k \div (MaxBucket + 1)) % (MaxBucket + 1),
      (k \div ((MaxBucket + 1) * (MaxBucket + 1))) % (MaxBucket + 1)>>

\* one Town Record of the CSV: unique name, four percentages, three buckets
CsvRow(i, v) ==
    LET b == BucketTriple(((i - 1) + (v - 1) * MinTowns) % NumTriples)
        r == [Town |-> TownName(i),
              Women |-> 45 + (i % 10),
              Men |-> 55 - (i % 10),
              Youth |-> 10 + (i % 7),
              Elderly |-> 5 + ((3 * i) % 11),
              B1 |-> b[1], B2 |-> b[2], B3 |-> b[3]]
    IN  (ColTown :> r.Town) @@ (ColWomen :> r.Women) @@ (ColMen :> r.Men) @@
        (ColYouth :> r.Youth) @@ (ColElderly :> r.Elderly) @@
        (ColB1 :> r.B1) @@ (ColB2 :> r.B2) @@ (ColB3 :> r.B3)

\* pd.read_csv(path), headers stripped: t towns in file order
CsvTable(t, v) == Frame(CsvColumns, [i \in 1..t |-> CsvRow(i, v)])

\* the data sets tried: between them the variants hold every bucket triple
\* and every table length in MinTowns..MaxTowns
Tables == {CsvTable(MinTowns + (v % (MaxTowns - MinTowns + 1)), v) : v \in 1..NumVariants}

\* the default of the annotation multiselect: six towns of the data set
DefaultTowns == <<TownName(4), TownName(2), TownName(3), TownName(8), TownName(1), TownName(6)>>

\* the sample data of the pie section
SampleData ==
    Frame(<<ColTown, ColWomen, ColMen>>,
          << (ColTown :> "Town A") @@ (ColWomen :> 55) @@ (ColMen :> 45),
             (ColTown :> "Town B") @@ (ColWomen :> 60) @@ (ColMen :> 40),
             (ColTown :> "Town C") @@ (ColWomen :> 65) @@ (ColMen :> 35) >>)

\* --------------------------------------------------------- the script run
NoChart == [kind |-> "none"]

NoError == [kind |-> "none", section |-> "none"]

KeyError(section) == [kind |-> "KeyError", section |-> section]

\* the script's namespace and page at the top of a run, after read_csv
StartRun(csv, submit_button) ==
    [df |-> csv, error |-> NoError, sections |-> <<>>,
     chart1 |-> NoChart, options |-> <<>>, chart2 |-> NoChart,
     form_options |-> <<>>, submit_button |-> submit_button, pie |-> NoChart,
     category_df |-> Frame(<<>>, <<>>), chart4 |-> NoChart, chart5 |-> NoChart]

Enter(env, section) == [env EXCEPT !.sections = Append(@, section)]

Raise(env, section) == [Enter(env, section) EXCEPT !.error = KeyError(section)]

\* TruncationFlow that truncates the table in place: df = df[:num_towns]
TruncationFlowInPlace(env, n) ==
    IF ~HasCols(env.df, <<ColTown, ColWomen, ColMen>>)
    THEN Raise(env, "truncation")
    ELSE LET df == Slice(env.df, n)
             df_melted == Melt(SelectCols(df, <<ColTown, ColWomen, ColMen>>),
                               ColTown, "Gender", "Percentage")
         IN  [Enter(env, "truncation") EXCEPT
                 !.df = df,
                 !.chart1 = [kind |-> "bar", title |-> "Gender by Town",
                             rows |-> df_melted.rows]]

\* lines 57-83: slider, first num_towns rows of three columns, melt, bar chart
TruncationFlow(env, n) ==
    IF ~HasCols(env.df, <<ColTown, ColWomen, ColMen>>)
    THEN Raise(env, "truncation")
    ELSE LET df_plot == Slice(SelectCols(env.df, <<ColTown, ColWomen, ColMen>>), n)
             df_melted == Melt(df_plot, ColTown, "Gender", "Percentage")
         IN  [Enter(env, "truncation") EXCEPT
                 !.chart1 = [kind |-> "bar", title |-> "Gender by Town",
                             rows |-> df_melted.rows]]

\* lines 88-97 and 213-222: df['Average family size'] = ..., the derived
\* column is added to df, or overwritten when it is there already
MetricDeriver(df) ==
    Frame(IF Contains(df.cols, ColAvg) THEN df.cols ELSE Append(df.cols, ColAvg),
          [i \in DOMAIN df.rows |->
              [c \in Range(df.cols) \cup {ColAvg} |->
                  IF c = ColAvg
                  THEN AvgFamilySize(df.rows[i][ColB1], df.rows[i][ColB2], df.rows[i][ColB3])
                  ELSE df.rows[i][c]]])

\* Highlights that starts the loop at the second selected town
HighlightsSkipFirst(df_plot, towns) ==
    [k \in 1..(Len(towns) - 1) |->
        LET town_data == Filter(df_plot, ColTown, towns[k + 1])
        IN  [i \in DOMAIN town_data.rows |->
                [x |-> town_data.rows[i][ColAvg],
                 y |-> town_data.rows[i][ColElderly],
                 text |-> town_data.rows[i][ColTown]]]]

\* lines 121-132: one add_scatter trace per selected town, in selection order
Highlights(df_plot, towns) ==
    [k \in DOMAIN towns |->
        LET town_data == Filter(df_plot, ColTown, towns[k])
        IN  [i \in DOMAIN town_data.rows |->
                [x |-> town_data.rows[i][ColAvg],
                 y |-> town_data.rows[i][ColElderly],
                 text |-> town_data.rows[i][ColTown]]]]

\* lines 85-135: derived column, multiselect, scatter plot with annotations
AnnotationFlow(env, towns) ==
    IF ~HasCols(env.df, <<ColTown, ColElderly, ColB1, ColB2, ColB3>>)
    THEN Raise(env, "annotation")
    ELSE LET df == MetricDeriver(env.df)
             df_plot == SelectCols(df, <<ColTown, ColAvg, ColElderly>>)
         IN  [Enter(env, "annotation") EXCEPT
                 !.df = df,
                 !.options = Unique(df, ColTown),
                 !.chart2 = [kind |-> "scatter", base |-> df_plot.rows,
                             highlights |-> Highlights(df_plot, towns)]]

\* SelectedRow without the filter: df.iloc[0]
SelectedRowFirst(df, town) == df.rows[1]

\* line 160: df[df['Town'] == selected_town].iloc[0]
SelectedRow(df, town) == Filter(df, ColTown, town).rows[1]

\* lines 163-166
PieData(selected_row) ==
    << [Gender |-> "Women", Percentage |-> selected_row[ColWomen]],
       [Gender |-> "Men", Percentage |-> selected_row[ColMen]] >>

\* PieSection without the test of submit_button: the pie is built in every run
PieSectionAlways(env, town, submit_button) ==
    LET df == SampleData
        e == [Enter(env, "pie") EXCEPT !.df = df,
                                       !.form_options = Unique(df, ColTown)]
        selected_row == SelectedRow(df, town)
    IN  [e EXCEPT !.pie = [kind |-> "pie", town |-> selected_row[ColTown],
                           slices |-> PieData(selected_row)]]

\* lines 139-179: df is rebound to the sample data; the pie chart is built
\* only when the form's submit button returned True in this run
PieSection(env, town, submit_button) ==
    LET df == SampleData
        e == [Enter(env, "pie") EXCEPT !.df = df,
                                       !.form_options = Unique(df, ColTown)]
    IN  IF submit_button
        THEN LET selected_row == SelectedRow(df, town)
             IN  [e EXCEPT !.pie = [kind |-> "pie", town |-> selected_row[ColTown],
                                    slices |-> PieData(selected_row)]]
        ELSE e

\* lines 183-204: df[['Town'] + selected_columns], melt, second bar chart
CategoryFlow(env, columns) ==
    IF ~HasCols(env.df, <<ColTown>> \o columns)
    THEN [Raise(env, "category") EXCEPT !.category_df = env.df]
    ELSE LET df_plot == Melt(SelectCols(env.df, <<ColTown>> \o columns),
                             ColTown, "Category", "Percentage")
         IN  [Enter(env, "category") EXCEPT
                 !.category_df = env.df,
                 !.chart4 = [kind |-> "bar", title |-> "Distribution by Town",
                             rows |-> df_plot.rows]]

\* lines 206-233: radio, derived column again, second scatter plot
AgeGroupFlow(env, group) ==
    IF ~HasCols(env.df, <<ColB1, ColB2, ColB3>>)
    THEN Raise(env, "age_group")
    ELSE LET df == MetricDeriver(env.df)
         IN  IF ~HasCols(df, <<ColTown, ColAvg, group>>)
             THEN Raise(env, "age_group")
             ELSE [Enter(env, "age_group") EXCEPT
                      !.df = df,
                      !.chart5 = [kind |-> "scatter", color |-> ColTown,
                                  rows |-> SelectCols(df, <<ColTown, ColAvg, group>>).rows]]

\* one execution of the script, top to bottom; an uncaught exception ends
\* the run, the later sections are not executed
RunScript(csv, n, towns, town, submit_button, columns, group) ==
    LET e0 == StartRun(csv, submit_button)
        e1 == TruncationFlow(e0, n)
        e2 == IF e1.error = NoError THEN AnnotationFlow(e1, towns) ELSE e1
        e3 == IF e2.error = NoError THEN PieSection(e2, town, submit_button) ELSE e2
        e4 == IF e3.error = NoError THEN CategoryFlow(e3, columns) ELSE e3
        e5 == IF e4.error = NoError THEN AgeGroupFlow(e4, group) ELSE e4
    IN  e5

\* ------------------------------------------------------------- the session
\* a multiselect interaction: pick one more option, drop one, or clear all
Interactions(selection, options) ==
    {Append(selection, o) : o \in Range(options) \ Range(selection)}
        \cup {Remove(selection, o) : o \in Range(selection)}
        \cup (IF selection = <<>> THEN {} ELSE {<<>>})

Rendered(section) == Contains(display.sections, section)

Init ==
    /\ table \in Tables
    /\ num_towns = SliderDefault
    /\ selected_towns = DefaultTowns
    /\ selected_town = SampleData.rows[1][ColTown]
    /\ pending_town = SampleData.rows[1][ColTown]
    /\ selected_columns = DefaultColumns
    /\ age_group = AgeGroupOptions[1]
    /\ trigger = "load"
    /\ interactions = 0
    /\ display = RunScript(table, SliderDefault, DefaultTowns, SampleData.rows[1][ColTown],
                           FALSE, DefaultColumns, AgeGroupOptions[1])

\* line 58: the slider moves, the script reruns
ChangeSlider ==
    /\ interactions < MaxInteractions
    /\ Rendered("truncation")
    /\ \E n \in SliderValues \ {num_towns} :
          /\ num_towns' = n
          /\ display' = RunScript(table, n, selected_towns, selected_town, FALSE,
                                  selected_columns, age_group)
    /\ trigger' = "slider"
    /\ interactions' = interactions + 1
    /\ UNCHANGED <<table, selected_towns, selected_town, pending_town,
                   selected_columns, age_group>>

\* line 100: the annotation multiselect changes, the script reruns
ChangeSelectedTowns ==
    /\ interactions < MaxInteractions
    /\ Rendered("annotation")
    /\ \E s \in Interactions(selected_towns, display.options) :
          /\ selected_towns' = s
          /\ display' = RunScript(table, num_towns, s, selected_town, FALSE,
                                  selected_columns, age_group)
    /\ trigger' = "towns"
    /\ interactions' = interactions + 1
    /\ UNCHANGED <<table, num_towns, selected_town, pending_town,
                   selected_columns, age_group>>

\* line 152: the dropdown inside the form changes; the value stays in the
\* browser and no rerun happens
ChangeDropdown ==
    /\ interactions < MaxInteractions
    /\ Rendered("pie")
    /\ \E t \in Range(display.form_options) \ {pending_town} : pending_town' = t
    /\ trigger' = "dropdown"
    /\ interactions' = interactions + 1
    /\ UNCHANGED <<table, num_towns, selected_towns, selected_town,
                   selected_columns, age_group, display>>

\* line 155: the submit button sends the form's values; the script reruns
\* with submit_button True
SubmitForm ==
    /\ interactions < MaxInteractions
    /\ Rendered("pie")
    /\ selected_town' = pending_town
    /\ display' = RunScript(table, num_towns, selected_towns, pending_town, TRUE,
                            selected_columns, age_group)
    /\ trigger' = "submit"
    /\ interactions' = interactions + 1
    /\ UNCHANGED <<table, num_towns, selected_towns, pending_town,
                   selected_columns, age_group>>

\* line 190: the category multiselect changes, the script reruns
ChangeSelectedColumns ==
    /\ interactions < MaxInteractions
    /\ Rendered("category")
    /\ \E s \in Interactions(selected_columns, CategoryOptions) :
          /\ selected_columns' = s
          /\ display' = RunScript(table, num_towns, selected_towns, selected_town, FALSE,
                                  s, age_group)
    /\ trigger' = "columns"
    /\ interactions' = interactions + 1
    /\ UNCHANGED <<table, num_towns, selected_towns, selected_town, pending_town,
                   age_group>>

\* line 210: the radio changes, the script reruns
ChangeAgeGroup ==
    /\ interactions < MaxInteractions
    /\ Rendered("age_group")
    /\ \E g \in Range(AgeGroupOptions) \ {age_group} :
          /\ age_group' = g
          /\ display' = RunScript(table, num_towns, selected_towns, selected_town, FALSE,
                                  selected_columns, g)
    /\ trigger' = "radio"
    /\ interactions' = interactions + 1
    /\ UNCHANGED <<table, num_towns, selected_towns, selected_town, pending_town,
                   selected_columns>>

Next ==
    \/ ChangeSlider
    \/ ChangeSelectedTowns
    \/ ChangeDropdown
    \/ SubmitForm
    \/ ChangeSelectedColumns
    \/ ChangeAgeGroup

Spec == Init /\ [][Next]_vars

TypeOK ==
    /\ num_towns \in SliderValues
    /\ interactions \in 0..MaxInteractions
    /\ display.error.kind \in {"none", "KeyError"}

\* ------------------------------------------------------------- properties

\* C1: a run shows the pie chart only when the run was triggered by the
\* form's submit button; a change of the dropdown inside the form leaves
\* the page as it was; the town of the pie is the dropdown value at the time
\* of the submit.
C1_PieOnlyOnSubmit ==
    [][ /\ (trigger' = "dropdown" => display' = display)
        /\ (trigger' # "dropdown" /\ display'.pie.kind = "pie"
               => trigger' = "submit" /\ display'.pie.town = pending_town) ]_vars

C1_Witness ==
    /\ trigger = "submit"
    /\ pending_town = "Town B"
    /\ display.pie.kind = "pie"
    /\ display.pie.town = "Town B"

\* C2: every run builds the second bar chart and the second scatter plot
\* from the towns of the loaded main data set: the table the category
\* section reads is the main table, the run ends without an error, and the
\* second scatter plot has one point per main town.
C2_LaterSectionsReadMainData ==
    /\ display.error = NoError
    /\ display.category_df = MetricDeriver(table)
    /\ display.chart4.kind = "bar"
    /\ display.chart5.kind = "scatter"
    /\ [i \in DOMAIN display.chart5.rows |-> display.chart5.rows[i][ColTown]]
          = [i \in DOMAIN table.rows |-> table.rows[i][ColTown]]

\* C3: the first bar chart is fed by exactly 2 * min(N, T) long-format rows:
\* one row per gender for each of the first min(N, T) towns of the table,
\* carrying that town's value, and no row for any other town.
C3_TruncationKeepsFirstN ==
    LET k == Min(num_towns, Len(table.rows))
        rows == display.chart1.rows
    IN  /\ display.chart1.kind = "bar"
        /\ Len(rows) = 2 * k
        /\ \A i \in 1..k : \A g \in {ColWomen, ColMen} :
              Cardinality({j \in DOMAIN rows :
                              /\ rows[j][ColTown] = table.rows[i][ColTown]
                              /\ rows[j]["Gender"] = g
                              /\ rows[j]["Percentage"] = table.rows[i][g]}) = 1
        /\ \A j \in DOMAIN rows :
              \E i \in 1..k : rows[j][ColTown] = table.rows[i][ColTown]

C3_Witness ==
    /\ num_towns = SliderMin
    /\ Len(table.rows) > SliderMin
    /\ display.chart1.kind = "bar"
    /\ Len(display.chart1.rows) = 2 * SliderMin

C5_MeltYieldsKTimesM ==
    LET src == display.category_df
        rows == display.chart4.rows
    IN  /\ display.chart4.kind = "bar"
        /\ Len(rows) = Len(selected_columns) * Len(src.rows)
        /\ \A j \in DOMAIN rows :
              \E i \in DOMAIN src.rows :
                 /\ rows[j][ColTown] = src.rows[i][ColTown]
                 /\ Contains(selected_columns, rows[j]["Category"])
                 /\ rows[j]["Percentage"] = src.rows[i][rows[j]["Category"]]

\* C6: the first scatter plot has exactly one highlighted marker for every
\* town of the current selection and none for any other town.
C6_OneMarkerPerSelectedTown ==
    LET h == display.chart2.highlights
        markers == {<<k, i>> \in (DOMAIN h) \X (1..Len(table.rows)) : i \in DOMAIN h[k]}
    IN  /\ display.chart2.kind = "scatter"
        /\ \A t \in Range(display.options) :
              Cardinality({p \in markers : h[p[1]][p[2]].text = t})
                 = IF Contains(selected_towns, t) THEN 1 ELSE 0
        /\ \A p \in markers : Contains(display.options, h[p[1]][p[2]].text)

C6_Witness ==
    /\ trigger = "towns"
    /\ interactions = 2
    /\ Len(selected_towns) = Len(DefaultTowns)
    /\ Range(selected_towns) # Range(DefaultTowns)
    /\ Len(display.chart2.highlights) = Len(DefaultTowns)

\* C7: a pie chart shown for a town of the sample data has exactly the two
\* slices Women and Men with that town's raw values, so they sum to
\* women% + men%; Town B gives Women = 60, Men = 40.
C7_PieShowsRawValues ==
    display.pie.kind = "pie" =>
       /\ display.pie.town = selected_town
       /\ \E i \in DOMAIN SampleData.rows :
             LET r == SampleData.rows[i]
             IN  /\ r[ColTown] = selected_town
                 /\ display.pie.slices =
                       << [Gender |-> "Women", Percentage |-> r[ColWomen]],
                          [Gender |-> "Men", Percentage |-> r[ColMen]] >>
                 /\ display.pie.slices[1].Percentage + display.pie.slices[2].Percentage
                       = r[ColWomen] + r[ColMen]
       /\ (selected_town = "Town B" =>
              /\ display.pie.slices[1].Percentage = 60
              /\ display.pie.slices[2].Percentage = 40)

C7_Witness ==
    /\ display.pie.kind = "pie"
    /\ selected_town = "Town B"
    /\ Len(display.pie.slices) = 2
    /\ display.pie.slices[1] = [Gender |-> "Women", Percentage |-> 60]
    /\ display.pie.slices[2] = [Gender |-> "Men", Percentage |-> 40]

\* C8: with no town selected the first scatter plot is built with no
\* highlighted marker and the run goes on to the pie section; with no
\* category selected the second bar chart is built from zero rows and the
\* run goes on to the age-group section; neither section raises.
C8_EmptySelectionsDegrade ==
    /\ selected_towns = <<>> =>
          /\ display.chart2.kind = "scatter"
          /\ display.chart2.highlights = <<>>
          /\ display.error.section # "annotation"
          /\ Contains(display.sections, "pie")
    /\ selected_columns = <<>> =>
          /\ display.chart4.kind = "bar"
          /\ display.chart4.rows = <<>>
          /\ display.error.section # "category"
          /\ Contains(display.sections, "age_group")

C8_Witness ==
    /\ selected_towns = <<>>
    /\ selected_columns = <<>>
    /\ display.chart2.kind = "scatter"
    /\ display.chart4.kind = "bar"

\* C9: a town with buckets (0,0,0) gets NaN as its average family size, the
\* derivation raises nothing, and every other town's value is the weighted
\* mean of its buckets.
C9_ZeroBucketsGiveNaN ==
    /\ display.chart2.kind = "scatter"
    /\ display.error.section \notin {"truncation", "annotation"}
    /\ \A i \in DOMAIN table.rows :
          LET b1 == table.rows[i][ColB1]
              b2 == table.rows[i][ColB2]
              b3 == table.rows[i][ColB3]
              x == display.chart2.base[i][ColAvg]
          IN  IF b1 + b2 + b3 = 0
              THEN x = NaN
              ELSE /\ x.tag = "num"
                   /\ x.n * 2 * (b1 + b2 + b3) = x.d * (3 * b1 + 10 * b2 + 14 * b3)

C9_Witness ==
    /\ display.chart2.kind = "scatter"
    /\ \E i \in DOMAIN table.rows :
          /\ table.rows[i][ColB1] + table.rows[i][ColB2] + table.rows[i][ColB3] = 0
          /\ display.chart2.base[i][ColAvg] = NaN
    /\ \E i \in DOMAIN table.rows : display.chart2.base[i][ColAvg].tag = "num"

\* C10: whatever the slider value, the options of the annotation multiselect
\* and the base points of the first scatter plot are all the towns of the
\* loaded table, in table order.
C10_SliderLeavesTableAlone ==
    /\ display.chart2.kind = "scatter"
    /\ display.options = [i \in DOMAIN table.rows |-> table.rows[i][ColTown]]
    /\ [i \in DOMAIN display.chart2.base |-> display.chart2.base[i][ColTown]]
          = [i \in DOMAIN table.rows |-> table.rows[i][ColTown]]

C10_Witness ==
    /\ trigger = "slider"
    /\ num_towns < Len(table.rows)
    /\ Len(display.chart1.rows) = 2 * num_towns
    /\ Len(display.chart2.base) = Len(table.rows)
    /\ Len(display.options) = Len(table.rows)

====
